---- MODULE Spec2Model ----
(***************************************************************************)
(* Model of UNETPyTorch/V2/ModelModules.py: the construction of ConvSet,   *)
(* DownSample, UpSample, UNET and ResNet modules and the order in which    *)
(* their forward passes move tensors.  A tensor is its channel count and   *)
(* its producer; a layer built by a framework factory is the recorded      *)
(* call (factory, positional arguments, keyword arguments).                *)
(*                                                                         *)
(* Python sequences are 0-based, TLA+ sequences 1-based: Python's s[i] is  *)
(* s[i + 1] here and s[-1] is Last(s).                                     *)
(***************************************************************************)
EXTENDS Integers, Sequences, FiniteSets, TLC

(* ------------------------------ bounds --------------------------------- *)

\* most resolution levels of a UNET: len(channel_list) - 1
MaxLevels == 2

\* most layers of a ResNet: len(layer_channels_list)
MaxLayers == 2

\* largest set_count of a ResNet layer
MaxSetCount == 2

\* longest channel_sequence handed to a ConvSet
MaxChanSeqLen == 4

\* longest kernel_sequence / padding_sequence handed to a ConvSet
MaxKernSeqLen == 3

\* largest spatial size (one trailing axis) of a batch handed to UNET.forward
MaxSize == 8

(* --------------------------- input domains ----------------------------- *)

ChanVals == {1, 2, 3}

KernelVals == {3}

PaddingVals == {1}

DimsVals == {3, 4}

StrideVals == {1, 2}

EmbedCountVals == {8}

\* channel counts of a UNET's channel_list and its in_channels
UnetChanVals == {1, 2, 4}

UnetInChanVals == {3}

SeqsUpTo(S, lo, hi) == UNION {[1..n -> S] : n \in lo..hi}

Last(s) == s[Len(s)]

(* --------------------------- attention args ---------------------------- *)

\* attention_args as a ConvSet/UpSample constructor sees it: None, a dict or
\* an AttentionArgs; only the three fields the module writes are kept.
NoneArgs == [kind |-> "None", enc_channels |-> 0, skip_channels |-> 0, spatial_inter_channels |-> 0]

AttnArgsOf(kind, enc, skip, inter) ==
    [kind |-> kind, enc_channels |-> enc, skip_channels |-> skip, spatial_inter_channels |-> inter]

\* the Attention module (or None) a constructor keeps for the given args
NoAttention == [present |-> FALSE, enc_channels |-> 0, skip_channels |-> 0, spatial_inter_channels |-> 0]

SetAttention(attention_args) ==
    IF attention_args.kind = "dict" THEN
        [present |-> TRUE, enc_channels |-> attention_args.enc_channels,
         skip_channels |-> attention_args.skip_channels,
         spatial_inter_channels |-> attention_args.spatial_inter_channels]
    ELSE IF attention_args.kind = "AttentionArgs" THEN
        [present |-> TRUE, enc_channels |-> attention_args.enc_channels,
         skip_channels |-> attention_args.skip_channels,
         spatial_inter_channels |-> attention_args.spatial_inter_channels]
    ELSE NoAttention

(* ------------------------------ ConvSet -------------------------------- *)

\* faulty variant: the last assert (the lengths agree) left out
ConvSetAssertsNoCouple(channel_sequence, kernel_sequence, padding_sequence) ==
    /\ Len(channel_sequence) >= 3
    /\ Len(kernel_sequence) >= 2
    /\ Len(padding_sequence) >= 2

\* the four assert statements of ConvSet.__init__
ConvSetAsserts(channel_sequence, kernel_sequence, padding_sequence) ==
    /\ Len(channel_sequence) >= 3
    /\ Len(kernel_sequence) >= 2
    /\ Len(padding_sequence) >= 2
    /\ Len(kernel_sequence) = Len(padding_sequence)
    /\ Len(padding_sequence) = Len(channel_sequence) - 1

\* faulty variant: the stride on every block
CurStrideAll(i, stride) == stride

\* cur_stride of the block at Python index i
CurStride(i, stride) == IF i = 1 THEN stride ELSE 1

\* one element of conv_list: the conv_function and bn_function calls of
\* Python index i (the activation carries no parameter)
ConvBlock(channel_sequence, kernel_sequence, padding_sequence, dims, stride, i) ==
    IF dims <= 3 THEN
        [conv |-> [fn |-> "conv_function",
                   args |-> <<channel_sequence[i + 1], channel_sequence[i + 2]>>,
                   kw |-> [kernel_size |-> kernel_sequence[i + 1],
                           padding |-> padding_sequence[i + 1],
                           stride |-> CurStride(i, stride)]],
         bn |-> [fn |-> "bn_function", args |-> <<channel_sequence[i + 2]>>]]
    ELSE
        [conv |-> [fn |-> "conv_function",
                   args |-> <<dims, channel_sequence[i + 1], channel_sequence[i + 2]>>,
                   kw |-> [kernel_size |-> kernel_sequence[i + 1],
                           padding |-> padding_sequence[i + 1],
                           stride |-> CurStride(i, stride)]],
         bn |-> [fn |-> "bn_function", args |-> <<dims, channel_sequence[i + 2]>>]]

\* embed_adjuster: nn.Linear(time_embed_count, channel_sequence[2]) or None
NoAdjuster == [present |-> FALSE, in_features |-> 0, out_features |-> 0]

EmbedAdjuster(channel_sequence, use_time, time_embed_count) ==
    IF use_time THEN
        [present |-> TRUE, in_features |-> time_embed_count, out_features |-> channel_sequence[3]]
    ELSE NoAdjuster

\* res_match: the 1x1 convolution and its batch norm, or None
NoResMatch == [present |-> FALSE]

ResMatch(channel_sequence, dims, stride, use_residual) ==
    IF use_residual THEN
        IF dims <= 3 THEN
            [present |-> TRUE,
             conv |-> [fn |-> "conv_function",
                       args |-> <<channel_sequence[1], Last(channel_sequence)>>,
                       kw |-> [kernel_size |-> 1, stride |-> stride]],
             bn |-> [fn |-> "bn_function", args |-> <<Last(channel_sequence)>>]]
        ELSE
            [present |-> TRUE,
             conv |-> [fn |-> "conv_function",
                       args |-> <<dims, channel_sequence[1], Last(channel_sequence)>>,
                       kw |-> [kernel_size |-> 1, stride |-> stride]],
             bn |-> [fn |-> "bn_function", args |-> <<dims, Last(channel_sequence)>>]]
    ELSE NoResMatch

\* what a failed construction leaves: nothing was built
NotBuilt(status) ==
    [status |-> status, dimensions |-> 0, conv_list |-> <<>>, need_time |-> FALSE,
     embed_adjuster |-> NoAdjuster, attention |-> NoAttention, need_res |-> FALSE,
     res_match |-> NoResMatch]

\* ConvSet.__init__: the asserts, then conv_list, embed_adjuster, attention
\* and res_match.  Indexing a sequence past its end is Python's IndexError.
ConvSetNew(channel_sequence, kernel_sequence, padding_sequence, dims, stride, use_time, time_embed_count, attention_args, use_residual) ==
    IF ~ConvSetAsserts(channel_sequence, kernel_sequence, padding_sequence) THEN
        NotBuilt("AssertionError")
    ELSE IF \/ Len(kernel_sequence) < Len(channel_sequence) - 1
            \/ Len(padding_sequence) < Len(channel_sequence) - 1
            \/ (use_time /\ Len(channel_sequence) < 3)
            \/ (use_residual /\ Len(channel_sequence) < 1) THEN
        NotBuilt("IndexError")
    ELSE
        [status |-> "ok",
         dimensions |-> dims,
         conv_list |-> [j \in 1..(Len(channel_sequence) - 1) |->
                          ConvBlock(channel_sequence, kernel_sequence, padding_sequence,
                                    dims, stride, j - 1)],
         need_time |-> use_time,
         embed_adjuster |-> EmbedAdjuster(channel_sequence, use_time, time_embed_count),
         attention |-> SetAttention(attention_args),
         need_res |-> use_residual,
         res_match |-> ResMatch(channel_sequence, dims, stride, use_residual)]

\* positional arguments of a factory call without the leading dims
PlainArgs(call, dims) == IF dims <= 3 THEN call.args ELSE Tail(call.args)

\* input / output channel count of a conv_function call
ConvIn(call, dims) == PlainArgs(call, dims)[1]

ConvOut(call, dims) == PlainArgs(call, dims)[2]

(* --------------------------- forward passes ---------------------------- *)

\* marker for a tensor that does not exist because an operation raised
Raised == 0

\* channel count of a + b under the framework's broadcasting of axis 1
BroadcastAdd(a, b) ==
    IF a = Raised \/ b = Raised THEN Raised
    ELSE IF a = b THEN a
    ELSE IF a = 1 THEN b
    ELSE IF b = 1 THEN a
    ELSE Raised

\* channel count a convolution built by `call` gives for `channels` input
\* channels; the framework raises on any other count than it was built for
ConvApply(call, dims, channels) ==
    IF channels # Raised /\ channels = ConvIn(call, dims) THEN ConvOut(call, dims) ELSE Raised

\* one record per operation ConvSet.forward performs, in order
ConvStep(i, got, call, dims) ==
    [op |-> "conv", index |-> i, got |-> got, built_for |-> ConvIn(call, dims)]

RECURSIVE RestConvs(_, _, _, _)
\* the loop `for i in range(1, len(self.conv_list))` from Python index i on:
\* <<channel count after the loop, steps taken>>
RestConvs(cs, i, channels, steps) ==
    IF i > Len(cs.conv_list) - 1 \/ channels = Raised THEN <<channels, steps>>
    ELSE RestConvs(cs, i + 1,
                   ConvApply(cs.conv_list[i + 1].conv, cs.dimensions, channels),
                   Append(steps, ConvStep(i, channels, cs.conv_list[i + 1].conv, cs.dimensions)))

NoTimeEmbed == [present |-> FALSE, features |-> 0]

TimeEmbedOf(features) == [present |-> TRUE, features |-> features]

\* ConvSet.forward up to and including the time addition:
\* <<status, channel count, steps>>
FirstConvAndTime(cs, batch, time_embed) ==
    LET first == ConvApply(cs.conv_list[1].conv, cs.dimensions, batch)
        step0 == <<ConvStep(0, batch, cs.conv_list[1].conv, cs.dimensions)>>
    IN  IF first = Raised THEN <<"RuntimeError", Raised, step0>>
        ELSE IF ~cs.need_time THEN <<"ok", first, step0>>
        ELSE IF ~time_embed.present THEN <<"AssertionError", Raised, step0>>
        ELSE IF time_embed.features # cs.embed_adjuster.in_features THEN
            <<"RuntimeError", Raised, step0>>
        ELSE LET sum == BroadcastAdd(first, cs.embed_adjuster.out_features)
             IN  <<IF sum = Raised THEN "RuntimeError" ELSE "ok", sum,
                   Append(step0, [op |-> "time_add", conv_batch |-> first,
                                  adjusted_time_embed |-> cs.embed_adjuster.out_features])>>

\* ConvSet.forward: [status, channels of the returned tensor, steps]
ConvSetForward(cs, batch, time_embed) ==
    LET head == FirstConvAndTime(cs, batch, time_embed)
        rest == RestConvs(cs, 1, head[2], head[3])
        attn_steps == IF cs.attention.present /\ rest[1] # Raised
                      THEN Append(rest[2], [op |-> "attention", got |-> rest[1]])
                      ELSE rest[2]
        res_batch == IF cs.need_res THEN ConvApply(cs.res_match.conv, cs.dimensions, batch)
                     ELSE Raised
        out == IF cs.need_res THEN BroadcastAdd(rest[1], res_batch) ELSE rest[1]
        steps == IF cs.need_res /\ rest[1] # Raised
                 THEN Append(attn_steps, [op |-> "residual", conv_batch |-> rest[1],
                                          res_batch |-> res_batch])
                 ELSE attn_steps
    IN  IF head[1] # "ok" THEN [status |-> head[1], channels |-> Raised, steps |-> head[3]]
        ELSE [status |-> IF out = Raised THEN "RuntimeError" ELSE "ok",
              channels |-> out, steps |-> steps]

(* ------------------------ DownSample / UpSample ------------------------ *)

\* faulty variant: the pooling factory never given dims
PoolNoDims(dims) ==
    [fn |-> "mp_function", args |-> <<>>, kw |-> [kernel_size |-> 2, stride |-> 2]]

\* DownSample.__init__ pool: mp_function(kernel_size=2, stride=2)
Pool(dims) ==
    IF dims <= 3 THEN
        [fn |-> "mp_function", args |-> <<>>, kw |-> [kernel_size |-> 2, stride |-> 2]]
    ELSE
        [fn |-> "mp_function", args |-> <<dims>>, kw |-> [kernel_size |-> 2, stride |-> 2]]

\* DownSample.__init__: a ConvSet of default stride and the pooling layer
DownSampleNew(channel_sequence, kernel_sequence, padding_sequence, dims, conv_time, conv_time_embed_count, conv_attn_args, conv_residual) ==
    [conv |-> ConvSetNew(channel_sequence, kernel_sequence, padding_sequence, dims, 1,
                         conv_time, conv_time_embed_count, conv_attn_args, conv_residual),
     pool |-> Pool(dims)]

\* faulty variant of the upscaler: a transposed convolution of stride 1
UpscalerStrideOne(channel_sequence, dims) ==
    IF dims <= 3 THEN
        [trans |-> [fn |-> "conv_trans_func",
                    args |-> <<channel_sequence[1], Last(channel_sequence)>>,
                    kw |-> [kernel_size |-> 2, stride |-> 1]],
         bn |-> [fn |-> "bn_function", args |-> <<Last(channel_sequence)>>]]
    ELSE
        [trans |-> [fn |-> "conv_trans_func",
                    args |-> <<dims, channel_sequence[1], Last(channel_sequence)>>,
                    kw |-> [kernel_size |-> 2, stride |-> 1]],
         bn |-> [fn |-> "bn_function", args |-> <<dims, Last(channel_sequence)>>]]

\* UpSample.__init__ upscaler: the transposed convolution and its batch norm
\* (the ReLU and the Dropout carry no channel parameter)
Upscaler(channel_sequence, dims) ==
    IF dims <= 3 THEN
        [trans |-> [fn |-> "conv_trans_func",
                    args |-> <<channel_sequence[1], Last(channel_sequence)>>,
                    kw |-> [kernel_size |-> 2, stride |-> 2]],
         bn |-> [fn |-> "bn_function", args |-> <<Last(channel_sequence)>>]]
    ELSE
        [trans |-> [fn |-> "conv_trans_func",
                    args |-> <<dims, channel_sequence[1], Last(channel_sequence)>>,
                    kw |-> [kernel_size |-> 2, stride |-> 2]],
         bn |-> [fn |-> "bn_function", args |-> <<dims, Last(channel_sequence)>>]]

\* UpSample.__init__: the skip attention, the upscaler and a ConvSet of default stride
UpSampleNew(channel_sequence, kernel_sequence, padding_sequence, dims, attention_args, conv_time, conv_time_embed_count, conv_attn_args, conv_residual) ==
    [attention |-> SetAttention(attention_args),
     upscaler |-> Upscaler(channel_sequence, dims),
     conv |-> ConvSetNew(channel_sequence, kernel_sequence, padding_sequence, dims, 1,
                         conv_time, conv_time_embed_count, conv_attn_args, conv_residual)]

\* DownSample.forward: the ConvSet result; conv_batch (the skip tensor) and
\* encoded_batch (pooled) both have its channel count
DownSampleForward(ds, batch, time_embed) == ConvSetForward(ds.conv, batch, time_embed)

\* UpSample.forward: attention on the skip (reshaped back to skip.shape), the
\* upscaler on cur, torch.cat on axis 1, then the ConvSet
UpSampleForward(up, cur, skip, time_embed) ==
    LET cur_upscaled == ConvApply(up.upscaler.trans, up.conv.dimensions, cur)
        combined == IF cur_upscaled = Raised THEN Raised ELSE cur_upscaled + skip
        res == ConvSetForward(up.conv, combined, time_embed)
    IN  [status |-> res.status, channels |-> res.channels, steps |-> res.steps,
         gated |-> up.attention.present, cur_upscaled |-> cur_upscaled,
         combined |-> combined]

(* ------------------ spatial size of a batch in forward ----------------- *)

\* A batch has the same size n on each of its trailing (spatial) axes; the
\* layers act on every spatial axis alike, so one axis is followed.  Raised
\* marks a size no tensor has: the layer raised.

\* self.conv_list[i](batch): the size a convolution built with kernel_size,
\* padding (0 when not given) and stride returns, floor division; it raises
\* when the kernel does not fit the padded input
ConvSizeOut(call, n) ==
    LET padding == IF "padding" \in DOMAIN call.kw THEN call.kw.padding ELSE 0
        out == (n + 2 * padding - call.kw.kernel_size) \div call.kw.stride + 1
    IN  IF n = Raised \/ out < 1 THEN Raised ELSE out

\* the convolutions of conv_list in order (batch norm and ReLU keep the size)
RECURSIVE ConvListSize(_, _)
ConvListSize(conv_list, n) ==
    IF conv_list = <<>> THEN n
    ELSE ConvListSize(Tail(conv_list), ConvSizeOut(Head(conv_list).conv, n))

\* ConvSet.forward: the time embedding is added over axes of size 1, the
\* attention output is reshaped back, the residual is added to the result
ConvSetSize(cs, n) ==
    LET conv_batch == ConvListSize(cs.conv_list, n)
    IN  IF cs.need_res THEN BroadcastAdd(conv_batch, ConvSizeOut(cs.res_match.conv, n))
        ELSE conv_batch

\* self.pool(conv_batch): max pooling, floor division; it raises when the
\* output would be empty
PoolSizeOut(call, n) ==
    IF n = Raised \/ n < call.kw.kernel_size THEN Raised
    ELSE (n - call.kw.kernel_size) \div call.kw.stride + 1

\* self.upscaler(cur): the transposed convolution (batch norm, ReLU and
\* Dropout keep the size)
TransSizeOut(call, n) ==
    IF n = Raised THEN Raised ELSE (n - 1) * call.kw.stride + call.kw.kernel_size

\* torch.cat([cur_upscaled, skip], 1): every axis but axis 1 must agree
CatSize(cur_upscaled, skip) ==
    IF cur_upscaled = Raised \/ skip = Raised \/ cur_upscaled # skip THEN Raised
    ELSE cur_upscaled

(* ------------------- attention-args objects of a caller ---------------- *)

\* A dict or AttentionArgs handed to UNET/ResNet is one object that every
\* level writes to: attn_heap maps an object to its current fields, and an
\* argument is a reference to an object, or NoRef for None.
NoRef == 0

ObjIds == {1, 2}

Deref(heap, ref) == IF ref = NoRef THEN NoneArgs ELSE heap[ref]

\* enc_channels, skip_channels, spatial_inter_channels := enc, skip, inter
WriteArgs(heap, ref, enc, skip, inter) ==
    [heap EXCEPT ![ref] = AttnArgsOf(@.kind, enc, skip, inter)]

\* the conv_attn_args branch of create_downsampler, create_upsampler and
\* create_resnet_layer
WriteConvAttn(heap, ref, cur_seq) ==
    IF Deref(heap, ref).kind = "dict" THEN
        WriteArgs(heap, ref, Last(cur_seq), Last(cur_seq), Last(cur_seq) \div 2)
    ELSE IF Deref(heap, ref).kind = "AttentionArgs" THEN
        WriteArgs(heap, ref, Last(cur_seq), Last(cur_seq), Last(cur_seq) \div 2)
    ELSE heap

(* -------------------------------- UNET --------------------------------- *)

\* kernel_sequence=(3, 3), padding_sequence=(1, 1) of every UNET stage
UnetKernels == <<3, 3>>

UnetPaddings == <<1, 1>>

\* cur_seq of the down sampler of Python index i
DownSeq(in_channels, channel_list, i) ==
    <<IF i = 0 THEN in_channels ELSE channel_list[i], channel_list[i + 1], channel_list[i + 1]>>

\* bn_seq
BottleneckSeq(channel_list) ==
    <<channel_list[Len(channel_list) - 1], Last(channel_list), Last(channel_list)>>

\* cur_seq of the up sampler built for loop value i (= cur_index)
UpSeq(channel_list, i) == <<channel_list[i + 1], channel_list[i], channel_list[i]>>

\* UNET.create_downsampler: [heap after the writes, the DownSample]
CreateDownsampler(heap, in, cur_seq) ==
    LET h == WriteConvAttn(heap, in.conv_attn_args, cur_seq)
    IN  [heap |-> h,
         module |-> DownSampleNew(cur_seq, UnetKernels, UnetPaddings, in.data_dims,
                                  in.denoise_diff, in.denoise_embed_count,
                                  Deref(h, in.conv_attn_args), in.conv_residual)]

\* faulty variant: the last up sampler included
UpAttnAppliesAlways(cur_index) == cur_index > 0

\* the `cur_index > 1` of create_upsampler
UpAttnApplies(cur_index) == cur_index > 1

\* the up_attn_args branch of create_upsampler
WriteUpAttn(heap, ref, cur_seq, cur_index) ==
    IF Deref(heap, ref).kind = "dict" /\ UpAttnApplies(cur_index) THEN
        WriteArgs(heap, ref, cur_seq[1], Last(cur_seq), Last(cur_seq))
    ELSE IF Deref(heap, ref).kind = "AttentionArgs" /\ UpAttnApplies(cur_index) THEN
        WriteArgs(heap, ref, cur_seq[1], Last(cur_seq), Last(cur_seq))
    ELSE heap

\* cur_up_attn of create_upsampler
CurUpAttn(heap, ref, cur_index) ==
    IF Deref(heap, ref).kind \in {"dict", "AttentionArgs"} /\ UpAttnApplies(cur_index)
    THEN ref ELSE NoRef

\* UNET.create_upsampler: [heap after the writes, the UpSample]
CreateUpsampler(heap, in, cur_seq, cur_index) ==
    LET h1 == WriteUpAttn(heap, in.up_attn_args, cur_seq, cur_index)
        cur_up_attn == CurUpAttn(heap, in.up_attn_args, cur_index)
        h2 == WriteConvAttn(h1, in.conv_attn_args, cur_seq)
    IN  [heap |-> h2,
         module |-> UpSampleNew(cur_seq, UnetKernels, UnetPaddings, in.data_dims,
                                Deref(h2, cur_up_attn), in.denoise_diff,
                                in.denoise_embed_count, Deref(h2, in.conv_attn_args),
                                in.conv_residual)]

\* the bottle_neck_attn branch of UNET.__init__: the heap after the writes
WriteBottleneckAttn(heap, ref, channel_list) ==
    IF Deref(heap, ref).kind = "dict" THEN
        WriteArgs(heap, ref, Last(channel_list), Last(channel_list), Last(channel_list) \div 2)
    ELSE IF Deref(heap, ref).kind = "AttentionArgs" THEN
        WriteArgs(heap, ref, Last(channel_list), Last(channel_list), Last(channel_list) \div 2)
    ELSE heap

\* faulty variant: the oldest skip tensor handed out
PopValueFront(skip_connections) == skip_connections[1]

\* skip_connections.pop(): the value popped and the list left
PopValue(skip_connections) == skip_connections[Len(skip_connections)]

PopRest(skip_connections) == SubSeq(skip_connections, 1, Len(skip_connections) - 1)

(* ------------------------------- ResNet -------------------------------- *)

\* the assert of ResNet.__init__
ResNetAssert(channels_list, kernels_list, paddings_list, set_list) ==
    /\ Len(channels_list) = Len(kernels_list)
    /\ Len(kernels_list) = Len(paddings_list)
    /\ Len(paddings_list) = Len(set_list)

Min2(a, b) == IF a <= b THEN a ELSE b

\* number of tuples zip(...) yields
ZipLen(channels_list, kernels_list, paddings_list, set_list) ==
    Min2(Min2(Len(channels_list), Len(kernels_list)),
         Min2(Len(paddings_list), Len(set_list)))

\* cur_stride of the layer of Python index j (first_layer_made is j > 0)
LayerStride(j) == IF j = 0 THEN 1 ELSE 2

\* faulty variant: channel_sequence[0] = channel_sequence[1]
OverwriteFirstWithSecond(channel_sequence) ==
    [channel_sequence EXCEPT ![1] = channel_sequence[2]]

\* channel_sequence after `channel_sequence[0] = channel_sequence[-1]`
OverwriteFirst(channel_sequence) ==
    [channel_sequence EXCEPT ![1] = Last(channel_sequence)]

\* faulty variant: range(set_count)
MoreSetsOneTooMany(set_count) == IF set_count > 0 THEN set_count ELSE 0

\* number of iterations of `for i in range(set_count - 1)`
MoreSets(set_count) == IF set_count > 1 THEN set_count - 1 ELSE 0

\* ResNet.create_resnet_layer: the heap after the attention writes, the
\* status, the ModuleList and channel_sequence as the call leaves it
CreateResnetLayer(heap, in, channel_sequence, kernel_sequence, padding_sequence, set_count, stride) ==
    LET h == WriteConvAttn(heap, in.conv_attn_args, channel_sequence)
        first == ConvSetNew(channel_sequence, kernel_sequence, padding_sequence,
                            in.data_dims, stride, in.denoise_diff, in.denoise_embed_count,
                            Deref(h, in.conv_attn_args), in.conv_residual)
        overwritten == OverwriteFirst(channel_sequence)
        later == ConvSetNew(overwritten, kernel_sequence, padding_sequence,
                            in.data_dims, 1, in.denoise_diff, in.denoise_embed_count,
                            Deref(h, in.conv_attn_args), in.conv_residual)
    IN  IF first.status # "ok" THEN
            [heap |-> h, status |-> first.status, set_list |-> <<>>,
             channel_sequence |-> channel_sequence]
        ELSE
            [heap |-> h, status |-> "ok",
             set_list |-> <<first>> \o [k \in 1..MoreSets(set_count) |-> later],
             channel_sequence |-> overwritten]

RECURSIVE Flatten(_)
\* the ConvSets in the order `for section ... for conv_set in section` visits them
Flatten(layers) ==
    IF layers = <<>> THEN <<>> ELSE Head(layers) \o Flatten(Tail(layers))

RECURSIVE RunSets(_, _, _, _, _)
\* the nested loop of ResNet.forward from the k-th ConvSet on:
\* [status, channels, log]
RunSets(sets, k, channels, time_embed, log) ==
    IF k > Len(sets) THEN [status |-> "ok", channels |-> channels, log |-> log]
    ELSE LET res == ConvSetForward(sets[k], channels, time_embed)
             entry == [index |-> k - 1, got |-> channels,
                       built_for |-> ConvIn(sets[k].conv_list[1].conv, sets[k].dimensions)]
         IN  IF res.status # "ok" THEN
                 [status |-> res.status, channels |-> Raised, log |-> Append(log, entry)]
             ELSE RunSets(sets, k + 1, res.channels, time_embed, Append(log, entry))

(* ------------------------------- state --------------------------------- *)

VARIABLES
    cs_pc,             \* ConvSet program: "new", "built", "forwarded" or the exception raised
    cs_in,             \* the arguments of ConvSet(...)
    conv_set,          \* the constructed ConvSet
    cs_out,            \* what ConvSet.forward returned: [status, channels, steps]
    attn_heap,         \* the caller's attention-args objects
    u_pc,              \* UNET program: position in __init__ / forward, or the exception raised
    unet_in,           \* the arguments of UNET(...)
    down_samplers,     \* down_smap / self.down_samplers
    bottle_neck,       \* self.bottle_neck
    bottle_neck_attn,  \* self.bottle_neck_attn
    up_samplers,       \* up_samp / self.up_samplers
    u_i,               \* number of iterations the current forward loop has made
    skip_connections,  \* forward's skip_connections: tensors [channels, level, size]
    cur,               \* channel count of cur_down / cur_up
    stage_log,         \* one record per stage forward has run
    r_pc,              \* ResNet program: position in __init__, or the exception raised
    resnet_in,         \* the arguments of ResNet(...) as the caller first wrote them
    layer_channels_list, \* the caller's channel lists, which create_resnet_layer writes to
    res_net_layers,    \* self.res_net_layers of the ResNet under construction
    r_round,           \* 1 for the first ResNet built from the lists, 2 for the second
    r_out,             \* what ResNet.forward returned: [status, channels, log]
    batch_shape,       \* spatial size of the batch handed to UNET.forward
    cur_size,          \* spatial size of cur_down / cur_up
    size_log           \* one record per up-sampling stage: sizes of cur_upscaled and skip

cs_vars == <<cs_pc, cs_in, conv_set, cs_out>>

u_vars == <<attn_heap, u_pc, unet_in, down_samplers, bottle_neck, bottle_neck_attn,
            up_samplers, u_i, skip_connections, cur, stage_log>>

r_vars == <<r_pc, resnet_in, layer_channels_list, res_net_layers, r_round, r_out>>

\* attn_heap is written by the UNET and by the ResNet program
\* the spatial sizes UNET.forward goes through
s_vars == <<batch_shape, cur_size, size_log>>

vars == <<cs_vars, u_vars, r_vars, s_vars>>

(* ------------------------- program 1: a ConvSet ------------------------ *)

NoForward == [status |-> "none", channels |-> Raised, steps |-> <<>>]

\* attention_args a caller may hand to a ConvSet directly
CallerAttnArgs == {NoneArgs, AttnArgsOf("dict", 2, 2, 1)}

ConvSetInputs ==
    [channel_sequence : SeqsUpTo(ChanVals, 2, MaxChanSeqLen),
     kernel_sequence : SeqsUpTo(KernelVals, 1, MaxKernSeqLen),
     padding_sequence : SeqsUpTo(PaddingVals, 1, MaxKernSeqLen),
     dims : DimsVals,
     stride : StrideVals,
     use_time : BOOLEAN,
     time_embed_count : EmbedCountVals,
     attention_args : CallerAttnArgs,
     use_residual : BOOLEAN]

\* ConvSet(...)
ConvSetInit ==
    /\ cs_pc = "new"
    /\ conv_set' = ConvSetNew(cs_in.channel_sequence, cs_in.kernel_sequence,
                              cs_in.padding_sequence, cs_in.dims, cs_in.stride,
                              cs_in.use_time, cs_in.time_embed_count,
                              cs_in.attention_args, cs_in.use_residual)
    /\ cs_pc' = IF conv_set'.status = "ok" THEN "built" ELSE conv_set'.status
    /\ UNCHANGED <<cs_in, cs_out, u_vars, r_vars, s_vars>>

\* conv_set(batch, time_embed) on a batch of cs_in.channel_sequence[0] channels
ConvSetCall ==
    /\ cs_pc = "built"
    /\ \E time_embed \in {NoTimeEmbed} \cup {TimeEmbedOf(n) : n \in EmbedCountVals} :
          cs_out' = ConvSetForward(conv_set, cs_in.channel_sequence[1], time_embed)
    /\ cs_pc' = IF cs_out'.status = "ok" THEN "forwarded" ELSE cs_out'.status
    /\ UNCHANGED <<cs_in, conv_set, u_vars, r_vars, s_vars>>

(* --------------------------- program 2: a UNET ------------------------- *)

\* the attention-args objects a caller holds before the call: either kind,
\* fields not yet written by the module
CallerHeaps ==
    {<<AttnArgsOf("dict", 0, 0, 0), AttnArgsOf("AttentionArgs", 0, 0, 0)>>,
     <<AttnArgsOf("AttentionArgs", 0, 0, 0), AttnArgsOf("dict", 0, 0, 0)>>}

\* up_attn_args and conv_attn_args may be None, two objects or the same object
UnetInputs ==
    [in_channels : UnetInChanVals,
     channel_list : SeqsUpTo(UnetChanVals, 1, MaxLevels + 1),
     data_dims : DimsVals,
     denoise_diff : BOOLEAN,
     denoise_embed_count : EmbedCountVals,
     up_attn_args : {NoRef, 1},
     conv_attn_args : {NoRef, 1, 2},
     conv_residual : BOOLEAN]

\* 2 ** k
RECURSIVE Pow2(_)
Pow2(k) == IF k = 0 THEN 1 ELSE 2 * Pow2(k - 1)

\* UNETs whose channel list doubles from level to level, or stays at one
\* channel, in each configuration of the other arguments
SizeChannelLists ==
    {[i \in 1..n |-> Pow2(i - 1)] : n \in 1..(MaxLevels + 1)}
        \cup {[i \in 1..n |-> 1] : n \in 2..(MaxLevels + 1)}

UnetSizeInputs ==
    [in_channels : UnetInChanVals,
     channel_list : SizeChannelLists,
     data_dims : DimsVals,
     denoise_diff : BOOLEAN,
     denoise_embed_count : EmbedCountVals,
     up_attn_args : {NoRef, 1},
     conv_attn_args : {NoRef, 1, 2},
     conv_residual : BOOLEAN]

\* N = len(channel_list) - 1
Levels == Len(unet_in.channel_list) - 1

\* UNET.__init__, one iteration of the down-sampler loop
UNETInitDown ==
    /\ u_pc = "init"
    /\ Len(down_samplers) < Levels
    /\ LET made == CreateDownsampler(attn_heap, unet_in,
                       DownSeq(unet_in.in_channels, unet_in.channel_list, Len(down_samplers)))
       IN  /\ attn_heap' = made.heap
           /\ down_samplers' = Append(down_samplers, made.module)
    /\ UNCHANGED <<u_pc, unet_in, bottle_neck, bottle_neck_attn, up_samplers, u_i,
                   skip_connections, cur, stage_log, cs_vars, r_vars, s_vars>>

\* UNET.__init__, the bottleneck ConvSet and bottle_neck_attn
UNETInitBottleneck ==
    /\ u_pc = "init"
    /\ Len(down_samplers) = Levels
    /\ IF Len(unet_in.channel_list) < 2 THEN
           /\ u_pc' = "IndexError"
           /\ UNCHANGED <<attn_heap, bottle_neck, bottle_neck_attn>>
       ELSE
           /\ u_pc' = "init_up"
           /\ bottle_neck' = ConvSetNew(BottleneckSeq(unet_in.channel_list), UnetKernels,
                                        UnetPaddings, unet_in.data_dims, 1,
                                        unet_in.denoise_diff, unet_in.denoise_embed_count,
                                        NoneArgs, unet_in.conv_residual)
           /\ attn_heap' = WriteBottleneckAttn(attn_heap, unet_in.up_attn_args,
                                               unet_in.channel_list)
           /\ bottle_neck_attn' = SetAttention(Deref(attn_heap', unet_in.up_attn_args))
    /\ UNCHANGED <<unet_in, down_samplers, up_samplers, u_i, skip_connections, cur,
                   stage_log, cs_vars, r_vars, s_vars>>

\* UNET.__init__, one iteration of the up-sampler loop: i = len - 1, ..., 1
UNETInitUp ==
    /\ u_pc = "init_up"
    /\ Len(up_samplers) < Levels
    /\ LET i == Levels - Len(up_samplers)
           made == CreateUpsampler(attn_heap, unet_in, UpSeq(unet_in.channel_list, i), i)
       IN  /\ attn_heap' = made.heap
           /\ up_samplers' = Append(up_samplers, made.module)
    /\ UNCHANGED <<u_pc, unet_in, down_samplers, bottle_neck, bottle_neck_attn, u_i,
                   skip_connections, cur, stage_log, cs_vars, r_vars, s_vars>>

\* UNET.__init__, the end of the up-sampler loop and the output layer
UNETInitDone ==
    /\ u_pc = "init_up"
    /\ Len(up_samplers) = Levels
    /\ u_pc' = "built"
    /\ UNCHANGED <<attn_heap, unet_in, down_samplers, bottle_neck, bottle_neck_attn,
                   up_samplers, u_i, skip_connections, cur, stage_log, cs_vars, r_vars, s_vars>>

\* time_embed of UNET.forward
UnetTimeEmbed ==
    IF unet_in.denoise_diff THEN TimeEmbedOf(unet_in.denoise_embed_count) ELSE NoTimeEmbed

StageEntry(stage, index, got, cs, skip_level, gated) ==
    [stage |-> stage, index |-> index, got |-> got,
     built_for |-> ConvIn(cs.conv_list[1].conv, cs.dimensions),
     skip_level |-> skip_level, gated |-> gated]

\* UNET.forward on a batch of in_channels channels: skip_connections = [],
\* the input layer and the time embedding
ForwardBegin ==
    /\ u_pc = "built"
    /\ u_pc' = "down"
    /\ skip_connections' = <<>>
    /\ cur' = unet_in.in_channels
    /\ cur_size' = batch_shape
    /\ u_i' = 0
    /\ UNCHANGED <<attn_heap, unet_in, down_samplers, bottle_neck, bottle_neck_attn,
                   up_samplers, stage_log, cs_vars, r_vars, batch_shape, size_log>>

\* one iteration of `for down_sampler in self.down_samplers`
ForwardDown ==
    /\ u_pc = "down"
    /\ u_i < Len(down_samplers)
    /\ LET ds == down_samplers[u_i + 1]
           res == DownSampleForward(ds, cur, UnetTimeEmbed)
           conv_batch == ConvSetSize(ds.conv, cur_size)
           encoded_batch == PoolSizeOut(ds.pool, conv_batch)
       IN  /\ stage_log' = Append(stage_log, StageEntry("down", u_i, cur, ds.conv, -1, FALSE))
           /\ IF res.status # "ok" THEN
                  /\ u_pc' = res.status
                  /\ UNCHANGED <<skip_connections, cur, cur_size, u_i>>
              ELSE IF encoded_batch = Raised THEN
                  /\ u_pc' = "RuntimeError"
                  /\ UNCHANGED <<skip_connections, cur, cur_size, u_i>>
              ELSE
                  /\ skip_connections' = Append(skip_connections,
                                                [channels |-> res.channels, level |-> u_i,
                                                 size |-> conv_batch])
                  /\ cur' = res.channels
                  /\ cur_size' = encoded_batch
                  /\ u_i' = u_i + 1
                  /\ u_pc' = u_pc
    /\ UNCHANGED <<attn_heap, unet_in, down_samplers, bottle_neck, bottle_neck_attn,
                   up_samplers, cs_vars, r_vars, batch_shape, size_log>>

\* the bottleneck phase (bottle_neck_attn reshapes back to cur_up.shape)
ForwardBottleneck ==
    /\ u_pc = "down"
    /\ u_i = Len(down_samplers)
    /\ LET res == ConvSetForward(bottle_neck, cur, UnetTimeEmbed)
           cur_up == ConvSetSize(bottle_neck, cur_size)
       IN  /\ stage_log' = Append(stage_log,
                                  StageEntry("bottle_neck", 0, cur, bottle_neck, -1, FALSE))
           /\ IF res.status # "ok" THEN
                  /\ u_pc' = res.status
                  /\ UNCHANGED <<cur, cur_size, u_i>>
              ELSE IF cur_up = Raised THEN
                  /\ u_pc' = "RuntimeError"
                  /\ UNCHANGED <<cur, cur_size, u_i>>
              ELSE
                  /\ cur' = res.channels
                  /\ cur_size' = cur_up
                  /\ u_i' = 0
                  /\ u_pc' = "up"
    /\ UNCHANGED <<attn_heap, unet_in, down_samplers, bottle_neck, bottle_neck_attn,
                   up_samplers, skip_connections, cs_vars, r_vars, batch_shape, size_log>>

\* one iteration of `for up_sampler in self.up_samplers`, with the pop
ForwardUp ==
    /\ u_pc = "up"
    /\ u_i < Len(up_samplers)
    /\ IF skip_connections = <<>> THEN
           /\ u_pc' = "IndexError"
           /\ UNCHANGED <<skip_connections, cur, cur_size, u_i, stage_log, size_log>>
       ELSE
           LET up == up_samplers[u_i + 1]
               skip == PopValue(skip_connections)
               res == UpSampleForward(up, cur, skip.channels, UnetTimeEmbed)
               cur_upscaled == TransSizeOut(up.upscaler.trans, cur_size)
               combined == CatSize(cur_upscaled, skip.size)
               conv_out == ConvSetSize(up.conv, combined)
           IN  /\ skip_connections' = PopRest(skip_connections)
               /\ stage_log' = Append(stage_log,
                                      StageEntry("up", u_i, res.combined, up.conv,
                                                 skip.level, res.gated))
               /\ size_log' = IF res.cur_upscaled = Raised THEN size_log
                              ELSE Append(size_log, [index |-> u_i,
                                                     cur_upscaled |-> cur_upscaled,
                                                     skip |-> skip.size])
               /\ IF res.cur_upscaled = Raised THEN
                      /\ u_pc' = res.status
                      /\ UNCHANGED <<cur, cur_size, u_i>>
                  ELSE IF combined = Raised THEN
                      /\ u_pc' = "RuntimeError"
                      /\ UNCHANGED <<cur, cur_size, u_i>>
                  ELSE IF res.status # "ok" THEN
                      /\ u_pc' = res.status
                      /\ UNCHANGED <<cur, cur_size, u_i>>
                  ELSE IF conv_out = Raised THEN
                      /\ u_pc' = "RuntimeError"
                      /\ UNCHANGED <<cur, cur_size, u_i>>
                  ELSE
                      /\ cur' = res.channels
                      /\ cur_size' = conv_out
                      /\ u_i' = u_i + 1
                      /\ u_pc' = u_pc
    /\ UNCHANGED <<attn_heap, unet_in, down_samplers, bottle_neck, bottle_neck_attn,
                   up_samplers, cs_vars, r_vars, batch_shape>>

\* the output layer and the return
ForwardOut ==
    /\ u_pc = "up"
    /\ u_i = Len(up_samplers)
    /\ u_pc' = "returned"
    /\ UNCHANGED <<attn_heap, unet_in, down_samplers, bottle_neck, bottle_neck_attn,
                   up_samplers, u_i, skip_connections, cur, stage_log, cs_vars, r_vars, s_vars>>

(* -------------------------- program 3: a ResNet ------------------------ *)

\* one layer as a caller writes it: its channel, kernel and padding sequence
ResLayerSpecs ==
    {[channels |-> <<1, 2, 2>>, kernels |-> <<3, 3>>, paddings |-> <<1, 1>>],
     [channels |-> <<2, 1, 1, 3>>, kernels |-> <<1, 3, 1>>, paddings |-> <<0, 1, 0>>],
     [channels |-> <<2, 2>>, kernels |-> <<3, 3>>, paddings |-> <<1, 1>>]}

ResLayers == [spec : ResLayerSpecs, set_count : 1..MaxSetCount]

DropLast(s) == SubSeq(s, 1, Len(s) - 1)

\* the four lists of ResNet(...) for the given layers; `short` names the list
\* that is one element shorter than the others, if any
ResLists(layers, short) ==
    LET c == [j \in 1..Len(layers) |-> layers[j].spec.channels]
        k == [j \in 1..Len(layers) |-> layers[j].spec.kernels]
        p == [j \in 1..Len(layers) |-> layers[j].spec.paddings]
        n == [j \in 1..Len(layers) |-> layers[j].set_count]
    IN  [layer_channels_list |-> IF short = "channels" THEN DropLast(c) ELSE c,
         layer_kernels_list |-> IF short = "kernels" THEN DropLast(k) ELSE k,
         layer_paddings_list |-> IF short = "paddings" THEN DropLast(p) ELSE p,
         layer_set_list |-> IF short = "sets" THEN DropLast(n) ELSE n]

ResNetFlags ==
    [data_dims : {2},
     denoise_diff : BOOLEAN,
     denoise_embed_count : EmbedCountVals,
     conv_attn_args : {NoRef, 1},
     conv_residual : BOOLEAN]

PlainFlags ==
    [data_dims |-> 2, denoise_diff |-> FALSE, denoise_embed_count |-> 8,
     conv_attn_args |-> NoRef, conv_residual |-> FALSE]

\* lists of equal length with every flag, and lists of unequal length
ResNetInputs ==
    {[lists |-> ResLists(layers, "none"), flags |-> f] :
        layers \in SeqsUpTo(ResLayers, 0, MaxLayers), f \in ResNetFlags}
    \cup
    {[lists |-> ResLists(layers, short), flags |-> PlainFlags] :
        layers \in SeqsUpTo(ResLayers, 1, MaxLayers),
        short \in {"channels", "kernels", "paddings", "sets"}}

NoResOut == [status |-> "none", channels |-> Raised, log |-> <<>>]

\* ResNet.__init__ up to the layer loop
ResNetInit ==
    /\ r_pc = "new"
    /\ r_pc' = IF ResNetAssert(layer_channels_list, resnet_in.lists.layer_kernels_list,
                               resnet_in.lists.layer_paddings_list,
                               resnet_in.lists.layer_set_list)
               THEN "layers" ELSE "AssertionError"
    /\ res_net_layers' = <<>>
    /\ UNCHANGED <<resnet_in, layer_channels_list, r_round, r_out, attn_heap>>
    /\ UNCHANGED <<u_pc, unet_in, down_samplers, bottle_neck, bottle_neck_attn, up_samplers,
                   u_i, skip_connections, cur, stage_log, cs_vars, s_vars>>

\* one iteration of `for channels, kernels, paddings, set_count in res_net_package`
ResNetInitLayer ==
    /\ r_pc = "layers"
    /\ Len(res_net_layers) < ZipLen(layer_channels_list, resnet_in.lists.layer_kernels_list,
                                    resnet_in.lists.layer_paddings_list,
                                    resnet_in.lists.layer_set_list)
    /\ LET j == Len(res_net_layers)
           made == CreateResnetLayer(attn_heap, resnet_in.flags, layer_channels_list[j + 1],
                                     resnet_in.lists.layer_kernels_list[j + 1],
                                     resnet_in.lists.layer_paddings_list[j + 1],
                                     resnet_in.lists.layer_set_list[j + 1], LayerStride(j))
       IN  /\ attn_heap' = made.heap
           /\ layer_channels_list' = [layer_channels_list EXCEPT ![j + 1] = made.channel_sequence]
           /\ IF made.status = "ok" THEN
                  /\ res_net_layers' = Append(res_net_layers, made.set_list)
                  /\ r_pc' = r_pc
              ELSE
                  /\ r_pc' = made.status
                  /\ UNCHANGED res_net_layers
    /\ UNCHANGED <<resnet_in, r_round, r_out>>
    /\ UNCHANGED <<u_pc, unet_in, down_samplers, bottle_neck, bottle_neck_attn, up_samplers,
                   u_i, skip_connections, cur, stage_log, cs_vars, s_vars>>

\* the end of the layer loop and the output layer
ResNetInitDone ==
    /\ r_pc = "layers"
    /\ Len(res_net_layers) = ZipLen(layer_channels_list, resnet_in.lists.layer_kernels_list,
                                    resnet_in.lists.layer_paddings_list,
                                    resnet_in.lists.layer_set_list)
    /\ r_pc' = "built"
    /\ UNCHANGED <<resnet_in, layer_channels_list, res_net_layers, r_round, r_out, attn_heap>>
    /\ UNCHANGED <<u_pc, unet_in, down_samplers, bottle_neck, bottle_neck_attn, up_samplers,
                   u_i, skip_connections, cur, stage_log, cs_vars, s_vars>>

\* ResNet.forward on a batch with the channel count the first ConvSet was
\* built for (one channel when the ResNet has no layer and returns the batch)
ResNetForward ==
    /\ r_pc = "built"
    /\ LET sets == Flatten(res_net_layers)
           time_embed == IF resnet_in.flags.denoise_diff
                         THEN TimeEmbedOf(resnet_in.flags.denoise_embed_count)
                         ELSE NoTimeEmbed
           batch == IF sets = <<>> THEN 1
                    ELSE ConvIn(sets[1].conv_list[1].conv, sets[1].dimensions)
       IN  r_out' = RunSets(sets, 1, batch, time_embed, <<>>)
    /\ r_pc' = IF r_out'.status = "ok" THEN "returned" ELSE r_out'.status
    /\ UNCHANGED <<resnet_in, layer_channels_list, res_net_layers, r_round, attn_heap>>
    /\ UNCHANGED <<u_pc, unet_in, down_samplers, bottle_neck, bottle_neck_attn, up_samplers,
                   u_i, skip_connections, cur, stage_log, cs_vars, s_vars>>

\* the caller builds a second ResNet from the same list objects
ResNetAgain ==
    /\ r_pc = "built"
    /\ r_round = 1
    /\ r_round' = 2
    /\ r_pc' = "new"
    /\ res_net_layers' = <<>>
    /\ UNCHANGED <<resnet_in, layer_channels_list, r_out, attn_heap>>
    /\ UNCHANGED <<u_pc, unet_in, down_samplers, bottle_neck, bottle_neck_attn, up_samplers,
                   u_i, skip_connections, cur, stage_log, cs_vars, s_vars>>

(* --------------------------- specifications ---------------------------- *)

CSInit ==
    /\ cs_pc = "new"
    /\ cs_in \in ConvSetInputs
    /\ conv_set = NotBuilt("none")
    /\ cs_out = NoForward
    /\ attn_heap = <<>>
    /\ u_pc = "idle"
    /\ unet_in = <<>>
    /\ down_samplers = <<>>
    /\ bottle_neck = NotBuilt("none")
    /\ bottle_neck_attn = NoAttention
    /\ up_samplers = <<>>
    /\ u_i = 0
    /\ skip_connections = <<>>
    /\ cur = Raised
    /\ stage_log = <<>>
    /\ r_pc = "idle"
    /\ resnet_in = <<>>
    /\ layer_channels_list = <<>>
    /\ res_net_layers = <<>>
    /\ r_round = 1
    /\ r_out = NoResOut
    /\ batch_shape = Raised
    /\ cur_size = Raised
    /\ size_log = <<>>

CSNext == ConvSetInit \/ ConvSetCall

SpecConvSet == CSInit /\ [][CSNext]_vars

UInit ==
    /\ cs_pc = "idle"
    /\ cs_in = <<>>
    /\ conv_set = NotBuilt("none")
    /\ cs_out = NoForward
    /\ attn_heap \in CallerHeaps
    /\ u_pc = "init"
    /\ unet_in \in UnetInputs
    /\ down_samplers = <<>>
    /\ bottle_neck = NotBuilt("none")
    /\ bottle_neck_attn = NoAttention
    /\ up_samplers = <<>>
    /\ u_i = 0
    /\ skip_connections = <<>>
    /\ cur = Raised
    /\ stage_log = <<>>
    /\ r_pc = "idle"
    /\ resnet_in = <<>>
    /\ layer_channels_list = <<>>
    /\ res_net_layers = <<>>
    /\ r_round = 1
    /\ r_out = NoResOut
    /\ batch_shape = Pow2(MaxLevels)
    /\ cur_size = Raised
    /\ size_log = <<>>

UNext ==
    \/ UNETInitDown
    \/ UNETInitBottleneck
    \/ UNETInitUp
    \/ UNETInitDone
    \/ ForwardBegin
    \/ ForwardDown
    \/ ForwardBottleneck
    \/ ForwardUp
    \/ ForwardOut

SpecUNET == UInit /\ [][UNext]_vars

\* the UNET program on batches of every spatial size up to MaxSize
USizeInit ==
    /\ cs_pc = "idle"
    /\ cs_in = <<>>
    /\ conv_set = NotBuilt("none")
    /\ cs_out = NoForward
    /\ attn_heap \in CallerHeaps
    /\ u_pc = "init"
    /\ unet_in \in UnetSizeInputs
    /\ down_samplers = <<>>
    /\ bottle_neck = NotBuilt("none")
    /\ bottle_neck_attn = NoAttention
    /\ up_samplers = <<>>
    /\ u_i = 0
    /\ skip_connections = <<>>
    /\ cur = Raised
    /\ stage_log = <<>>
    /\ r_pc = "idle"
    /\ resnet_in = <<>>
    /\ layer_channels_list = <<>>
    /\ res_net_layers = <<>>
    /\ r_round = 1
    /\ r_out = NoResOut
    /\ batch_shape \in 1..MaxSize
    /\ cur_size = Raised
    /\ size_log = <<>>

SpecUNETSize == USizeInit /\ [][UNext]_vars

RInit ==
    /\ cs_pc = "idle"
    /\ cs_in = <<>>
    /\ conv_set = NotBuilt("none")
    /\ cs_out = NoForward
    /\ attn_heap \in CallerHeaps
    /\ u_pc = "idle"
    /\ unet_in = <<>>
    /\ down_samplers = <<>>
    /\ bottle_neck = NotBuilt("none")
    /\ bottle_neck_attn = NoAttention
    /\ up_samplers = <<>>
    /\ u_i = 0
    /\ skip_connections = <<>>
    /\ cur = Raised
    /\ stage_log = <<>>
    /\ r_pc = "new"
    /\ resnet_in \in ResNetInputs
    /\ layer_channels_list = resnet_in.lists.layer_channels_list
    /\ res_net_layers = <<>>
    /\ r_round = 1
    /\ r_out = NoResOut
    /\ batch_shape = Raised
    /\ cur_size = Raised
    /\ size_log = <<>>

RNext ==
    \/ ResNetInit
    \/ ResNetInitLayer
    \/ ResNetInitDone
    \/ ResNetForward
    \/ ResNetAgain

SpecResNet == RInit /\ [][RNext]_vars

(* ------------------------------- claims -------------------------------- *)

\* positions of UNET.forward and of a finished UNET.__init__
UnetBuilt == u_pc \in {"built", "down", "up", "returned", "RuntimeError"}

UpEntries == {n \in DOMAIN stage_log : stage_log[n].stage = "up"}

\* C1: in UNET.forward the skip tensors are consumed last-in-first-out: the
\* k-th up-sampling stage executed receives the skip tensor of down-sampling
\* stage N-1-k, no skip tensor is consumed twice, the stack holds the tensors
\* of the stages not yet consumed in the order they were produced, a pop never
\* finds it empty, and it is empty, every tensor consumed once, when the
\* output layer is applied.
C1_SkipsLastInFirstOut ==
    /\ \A n \in UpEntries : stage_log[n].skip_level = Levels - 1 - stage_log[n].index
    /\ \A n \in UpEntries, m \in UpEntries :
          stage_log[n].skip_level = stage_log[m].skip_level => n = m
    /\ \A n \in DOMAIN skip_connections : skip_connections[n].level = n - 1
    /\ (u_pc = "up" /\ u_i < Len(up_samplers)) => skip_connections # <<>>
    /\ ((u_pc = "up" /\ u_i = Len(up_samplers)) \/ u_pc = "returned") =>
          /\ skip_connections = <<>>
          /\ \A l \in 0..(Levels - 1) : \E n \in UpEntries : stage_log[n].skip_level = l

\* a forward pass over two levels has returned
C1_Witness ==
    /\ u_pc = "returned"
    /\ Levels = 2
    /\ Cardinality(UpEntries) = 2

\* C2: every stage of a UNET built from any in_channels and channel_list
\* receives the channel count its first convolution was built for.
C2_StagesGetTheirChannels ==
    \A n \in DOMAIN stage_log : stage_log[n].got = stage_log[n].built_for

\* the lengths ConvSet.__init__ accepts, as the claim states them
C3_LengthsFit ==
    /\ Len(cs_in.channel_sequence) >= 3
    /\ Len(cs_in.kernel_sequence) >= 2
    /\ Len(cs_in.padding_sequence) >= 2
    /\ Len(cs_in.kernel_sequence) = Len(cs_in.padding_sequence)
    /\ Len(cs_in.kernel_sequence) = Len(cs_in.channel_sequence) - 1

\* C3: ConvSet construction succeeds exactly for the fitting lengths; any
\* other lengths raise AssertionError with no convolution created; on success
\* there are len(channel_sequence) - 1 blocks, block i mapping
\* channel_sequence[i] to channel_sequence[i+1] channels.
C3_ConvSetValidation ==
    cs_pc \notin {"idle", "new"} =>
        /\ conv_set.status = "ok" <=> C3_LengthsFit
        /\ ~C3_LengthsFit =>
              /\ cs_pc = "AssertionError"
              /\ conv_set.status = "AssertionError"
              /\ conv_set.conv_list = <<>>
        /\ C3_LengthsFit =>
              /\ Len(conv_set.conv_list) = Len(cs_in.channel_sequence) - 1
              /\ \A i \in DOMAIN conv_set.conv_list :
                    conv_set.conv_list[i].conv.args =
                        IF cs_in.dims <= 3
                        THEN <<cs_in.channel_sequence[i], cs_in.channel_sequence[i + 1]>>
                        ELSE <<cs_in.dims, cs_in.channel_sequence[i],
                               cs_in.channel_sequence[i + 1]>>

\* a ConvSet of three blocks was built
C3_Witness ==
    /\ cs_pc = "built"
    /\ Len(conv_set.conv_list) = 3

\* C4 as stated: once up_attn_args is supplied, every up-sampling stage has
\* an attention module and gates its skip tensor before the concatenation.
C4_EveryUpStageGated ==
    (UnetBuilt /\ unet_in.up_attn_args # NoRef) =>
        /\ \A k \in DOMAIN up_samplers : up_samplers[k].attention.present
        /\ \A n \in UpEntries : stage_log[n].gated

\* C4, amended: with up_attn_args supplied the bottleneck has an attention
\* module and every up-sampling stage gates its skip tensor except the last
\* one (cur_index = 1, paired with the first down-sampling stage), which
\* concatenates it unchanged; without up_attn_args neither the bottleneck
\* nor any up-sampling stage has such a module and no skip tensor is gated.
C4_AllButLastUpStageGated ==
    UnetBuilt =>
        IF unet_in.up_attn_args # NoRef THEN
            /\ bottle_neck_attn.present
            /\ \A k \in DOMAIN up_samplers : up_samplers[k].attention.present <=> k < Levels
            /\ \A n \in UpEntries : stage_log[n].gated <=> stage_log[n].index < Levels - 1
        ELSE
            /\ ~bottle_neck_attn.present
            /\ \A k \in DOMAIN up_samplers : ~up_samplers[k].attention.present
            /\ \A n \in UpEntries : ~stage_log[n].gated

\* a forward pass with up_attn_args over two levels has run both up stages
C4_Witness ==
    /\ u_pc = "returned"
    /\ unet_in.up_attn_args # NoRef
    /\ Levels = 2
    /\ \E n \in UpEntries : stage_log[n].gated
    /\ \E n \in UpEntries : ~stage_log[n].gated

\* C5: in a ConvSet built with use_time, the adjusted time embedding has the
\* channel count of the first block's output it is added to, and the addition
\* is the second operation of forward, after block 0 and before block 1.
C5_TimeEmbedMatchesFirstBlock ==
    (cs_pc \in {"forwarded", "RuntimeError"} /\ conv_set.need_time) =>
        /\ Len(cs_out.steps) >= 2
        /\ cs_out.steps[1].op = "conv" /\ cs_out.steps[1].index = 0
        /\ cs_out.steps[2].op = "time_add"
        /\ cs_out.steps[2].adjusted_time_embed = cs_out.steps[2].conv_batch
        /\ \A n \in 3..Len(cs_out.steps) : cs_out.steps[n].op # "time_add"

\* a factory call got `rest` as positional arguments, after dims when dims > 3
C6_Args(call, dims, rest) ==
    /\ dims <= 3 => call.args = rest
    /\ dims > 3 => call.args = <<dims>> \o rest

\* every factory call of a ConvSet built for channel sequence seq
C6_ConvSetCalls(cs, dims, seq) ==
    /\ \A i \in DOMAIN cs.conv_list :
          /\ cs.conv_list[i].conv.fn = "conv_function"
          /\ C6_Args(cs.conv_list[i].conv, dims, <<seq[i], seq[i + 1]>>)
          /\ cs.conv_list[i].conv.kw = [kernel_size |-> 3, padding |-> 1, stride |-> 1]
          /\ cs.conv_list[i].bn.fn = "bn_function"
          /\ C6_Args(cs.conv_list[i].bn, dims, <<seq[i + 1]>>)
    /\ cs.need_res =>
          /\ cs.res_match.conv.fn = "conv_function"
          /\ C6_Args(cs.res_match.conv, dims, <<seq[1], seq[Len(seq)]>>)
          /\ cs.res_match.conv.kw = [kernel_size |-> 1, stride |-> 1]
          /\ cs.res_match.bn.fn = "bn_function"
          /\ C6_Args(cs.res_match.bn, dims, <<seq[Len(seq)]>>)

\* C6: for dims <= 3 every factory call of ConvSet, DownSample and UpSample
\* (convolution, batch norm, max pooling, transposed convolution, residual
\* 1x1 convolution and its batch norm) has no dimension argument; for
\* dims > 3 each has dims as its first positional argument; the remaining
\* arguments are the same in both cases.
C6_DimsDispatch ==
    LET dims == unet_in.data_dims
        cl == unet_in.channel_list
    IN  u_pc # "idle" =>
        /\ \A i \in DOMAIN down_samplers :
              /\ C6_ConvSetCalls(down_samplers[i].conv, dims,
                                 DownSeq(unet_in.in_channels, cl, i - 1))
              /\ down_samplers[i].pool.fn = "mp_function"
              /\ C6_Args(down_samplers[i].pool, dims, <<>>)
              /\ down_samplers[i].pool.kw = [kernel_size |-> 2, stride |-> 2]
        /\ bottle_neck.status = "ok" =>
              C6_ConvSetCalls(bottle_neck, dims, BottleneckSeq(cl))
        /\ \A k \in DOMAIN up_samplers :
              LET seq == UpSeq(cl, Levels - k + 1)
              IN  /\ C6_ConvSetCalls(up_samplers[k].conv, dims, seq)
                  /\ up_samplers[k].upscaler.trans.fn = "conv_trans_func"
                  /\ C6_Args(up_samplers[k].upscaler.trans, dims, <<seq[1], seq[3]>>)
                  /\ up_samplers[k].upscaler.trans.kw = [kernel_size |-> 2, stride |-> 2]
                  /\ up_samplers[k].upscaler.bn.fn = "bn_function"
                  /\ C6_Args(up_samplers[k].upscaler.bn, dims, <<seq[3]>>)

\* a UNET with residual ConvSets was built for more than three dimensions
C6_Witness ==
    /\ u_pc = "built"
    /\ unet_in.data_dims > 3
    /\ unet_in.conv_residual
    /\ Levels = 2
    /\ down_samplers[1].pool.args = <<unet_in.data_dims>>

\* the conv attention of a ConvSet ending in c channels, built from the
\* values written for it
C7_ConvAttention(cs, c) ==
    /\ cs.attention.present
    /\ cs.attention.enc_channels = c
    /\ cs.attention.skip_channels = c
    /\ cs.attention.spatial_inter_channels = c \div 2

\* C7: every Attention module of a UNET is built from the values written to
\* the shared args object for its own level: a conv attention of a stage
\* ending in c channels from (c, c, c // 2), the skip attention of an up
\* stage with channel sequence [a, b, b] from enc_channels = a and
\* skip_channels = b.
C7_AttentionFromOwnLevel ==
    LET cl == unet_in.channel_list
    IN  u_pc # "idle" =>
        /\ unet_in.conv_attn_args # NoRef =>
              /\ \A i \in DOMAIN down_samplers :
                    C7_ConvAttention(down_samplers[i].conv, cl[i])
              /\ \A k \in DOMAIN up_samplers :
                    C7_ConvAttention(up_samplers[k].conv, UpSeq(cl, Levels - k + 1)[3])
        /\ \A k \in DOMAIN up_samplers :
              up_samplers[k].attention.present =>
                  /\ up_samplers[k].attention.enc_channels = UpSeq(cl, Levels - k + 1)[1]
                  /\ up_samplers[k].attention.skip_channels = UpSeq(cl, Levels - k + 1)[3]

\* the channel sequences as the caller first wrote them
OrigChannels == resnet_in.lists.layer_channels_list

\* the ResNet under construction has been given its layers
ResNetBuilt == r_pc \in {"built", "returned", "RuntimeError"}

\* the stride a ConvSet was built with shows on block 1 and on res_match
\* only; every other block has stride 1
C8_ConvSetStride(cs, stride) ==
    /\ \A i \in DOMAIN cs.conv_list :
          cs.conv_list[i].conv.kw.stride = IF i - 1 = 1 THEN stride ELSE 1
    /\ cs.need_res => cs.res_match.conv.kw.stride = stride

\* C8: every ConvSet of the first ResNet layer has stride 1; in a later
\* layer the first ConvSet has stride 2 and the others stride 1; in a ConvSet
\* the stride is applied to block 1 and to the residual 1x1 convolution only.
C8_ResNetStrides ==
    r_pc # "idle" =>
        \A j \in DOMAIN res_net_layers :
            \A k \in DOMAIN res_net_layers[j] :
                C8_ConvSetStride(res_net_layers[j][k], IF j > 1 /\ k = 1 THEN 2 ELSE 1)

\* a ResNet whose second layer has two residual ConvSets of three blocks
C8_Witness ==
    /\ r_pc = "built"
    /\ Len(res_net_layers) = 2
    /\ Len(res_net_layers[2]) = 2
    /\ Len(res_net_layers[2][1].conv_list) = 3
    /\ res_net_layers[2][1].need_res
    /\ res_net_layers[2][1].res_match.conv.kw.stride = 2

\* output channel count of a ConvSet: that of its last block
C9_Out(cs) == ConvOut(cs.conv_list[Len(cs.conv_list)].conv, cs.dimensions)

C9_In(cs) == ConvIn(cs.conv_list[1].conv, cs.dimensions)

C9_ListsSameLength ==
    /\ Len(OrigChannels) = Len(resnet_in.lists.layer_kernels_list)
    /\ Len(OrigChannels) = Len(resnet_in.lists.layer_paddings_list)
    /\ Len(OrigChannels) = Len(resnet_in.lists.layer_set_list)

\* C9: every ResNet layer holds exactly set_count ConvSets (set_count >= 1);
\* the first maps channel_sequence[0], as it is when the layer is created,
\* to channel_sequence[-1] channels, and every later one takes
\* channel_sequence[-1] input channels, the output channels of the ConvSet
\* before it; ResNet construction is rejected by assertion, before any layer
\* is built, unless the four lists have the same length.
C9_ResNetLayers ==
    r_pc \notin {"idle", "new"} =>
        /\ ~C9_ListsSameLength => (r_pc = "AssertionError" /\ res_net_layers = <<>>)
        /\ \A j \in DOMAIN res_net_layers :
              LET layer == res_net_layers[j]
                  seq == OrigChannels[j]
              IN  /\ C9_ListsSameLength
                  /\ Len(layer) = resnet_in.lists.layer_set_list[j]
                  /\ C9_In(layer[1]) = IF r_round = 1 THEN seq[1] ELSE seq[Len(seq)]
                  /\ \A k \in DOMAIN layer : C9_Out(layer[k]) = seq[Len(seq)]
                  /\ \A k \in 2..Len(layer) :
                        /\ C9_In(layer[k]) = seq[Len(seq)]
                        /\ C9_In(layer[k]) = C9_Out(layer[k - 1])

\* a first ResNet with a layer of two ConvSets whose input and output
\* channel counts differ
C9_Witness ==
    /\ r_pc = "built"
    /\ r_round = 1
    /\ \E j \in DOMAIN res_net_layers :
          /\ Len(res_net_layers[j]) = 2
          /\ C9_In(res_net_layers[j][1]) # C9_Out(res_net_layers[j][1])

\* C10: after a ResNet is constructed every sequence of the caller's
\* layer_channels_list has element 0 overwritten with its last element and
\* its other elements unchanged, and a second ResNet built from the same
\* list objects gets first ConvSets whose input channel count is their
\* output channel count, not the count first supplied.
C10_CallerListsOverwritten ==
    /\ (ResNetBuilt \/ (r_round = 2 /\ r_pc # "idle")) =>
          /\ Len(layer_channels_list) = Len(OrigChannels)
          /\ \A j \in DOMAIN layer_channels_list :
                /\ Len(layer_channels_list[j]) = Len(OrigChannels[j])
                /\ layer_channels_list[j][1] = OrigChannels[j][Len(OrigChannels[j])]
                /\ \A n \in 2..Len(OrigChannels[j]) :
                      layer_channels_list[j][n] = OrigChannels[j][n]
    /\ (r_round = 2 /\ r_pc # "idle") =>
          \A j \in DOMAIN res_net_layers :
              /\ C9_In(res_net_layers[j][1]) = C9_Out(res_net_layers[j][1])
              /\ C9_In(res_net_layers[j][1]) = OrigChannels[j][Len(OrigChannels[j])]

\* a second ResNet was built from lists whose first element had differed
\* from the last
C10_Witness ==
    /\ r_pc = "built"
    /\ r_round = 2
    /\ Len(res_net_layers) = 2
    /\ \A j \in DOMAIN res_net_layers :
          /\ OrigChannels[j][1] # OrigChannels[j][Len(OrigChannels[j])]
          /\ C9_In(res_net_layers[j][1]) # OrigChannels[j][1]

\* the up-sampling stages have all run: forward is at the output layer or past it
AtOutLayer == (u_pc = "up" /\ u_i = Len(up_samplers)) \/ u_pc = "returned"

\* C11: for a UNET of L = len(channel_list) - 1 levels and a batch whose
\* spatial size n is a positive multiple of 2^L, in every up-sampling stage
\* forward runs the upscaled tensor has the spatial size of the skip tensor
\* it is concatenated with (n / 2^j for the skip of down-sampling stage j),
\* and the tensor entering the output layer has spatial size n.
C11_UpscaledMeetsSkip ==
    (u_pc # "init" /\ batch_shape >= 1 /\ batch_shape % Pow2(Levels) = 0) =>
        /\ \A k \in DOMAIN size_log :
              /\ size_log[k].cur_upscaled = size_log[k].skip
              /\ size_log[k].skip * Pow2(Levels - 1 - size_log[k].index) = batch_shape
        /\ AtOutLayer => cur_size = batch_shape

\* forward returned from a UNET of two levels on a batch whose size is a
\* multiple of four, after two up-sampling stages on skips of different sizes
C11_Witness ==
    /\ u_pc = "returned"
    /\ Levels = 2
    /\ batch_shape >= 1
    /\ batch_shape % Pow2(Levels) = 0
    /\ Len(size_log) = 2
    /\ size_log[1].skip # size_log[2].skip
    /\ cur_size = batch_shape

====
